---- MODULE Spec2Model ----
(***************************************************************************)
(* Model of simple_live_fixes.py: the startup patch applier.               *)
(*                                                                         *)
(* State: the process-global configuration the five adjustment routines    *)
(* write (os.environ, warnings.filters, the asyncio event-loop policy,     *)
(* numpy's error state, the gc thresholds), the facts of the installation  *)
(* (platform, importable optional modules, availability of the proactor    *)
(* policy, the library calls that raise in it), and a record of the most   *)
(* recent call of a function of the module.                                *)
(*                                                                         *)
(* A routine's try body is a function from the configuration and a fault   *)
(* point to a body result [g, log, exc]; the except clauses are operators  *)
(* on body results.  Fault point 0 is a body in which no library call      *)
(* raises; a point n > 0 names the place where a call raises an Exception  *)
(* other than ImportError.  The policy is modelled by its class, and       *)
(* gc.collect(), which changes no configuration, by nothing.               *)
(***************************************************************************)
EXTENDS Integers, Sequences, FiniteSets, TLC

VARIABLES
    platform,      \* platform.system()
    modules,       \* the optional modules that can be imported
    hasProactor,   \* hasattr(asyncio, 'WindowsProactorEventLoopPolicy')
    environ,       \* os.environ restricted to the two variables; DOMAIN = set names
    filters,       \* warnings.filters, front of the list first
    policy,        \* class of the process-wide asyncio event-loop policy
    errstate,      \* numpy error state (np.geterr())
    threshold,     \* gc.get_threshold()
    faults,        \* which library call of each routine raises in this installation
    last           \* the most recent call: what ran, on what, with which outcome

vars == <<platform, modules, hasProactor, environ, filters, policy, errstate,
          threshold, faults, last>>

(***************************************************************************)
(* Bounds and value sets                                                   *)
(***************************************************************************)
\* longest warnings.filters list the process starts with
MaxInitFilters == 1

Routines == {"fix_pandas_warnings", "fix_asyncio_warnings", "fix_binance_client_timeouts",
             "fix_signal_calculations", "optimize_memory_usage"}

\* the keys of the status mapping, in the order get_fix_status fills them
FixNames == {"pandas_warnings", "asyncio_warnings", "binance_timeouts",
             "signal_calculations", "memory_optimization"}

EnvNames == {"BINANCE_API_TIMEOUT", "BINANCE_MAX_RETRIES"}

\* os.getenv of a variable that is not set
None == "<None>"

\* values the surrounding environment may have given a variable
InitEnvValues == {"", "99"}

\* the three filters fix_pandas_warnings registers (action, message, category, module)
FutureFilter == [action |-> "ignore", message |-> "", category |-> "FutureWarning", module |-> "pandas"]
DataFrameFilter == [action |-> "ignore", message |-> ".*DataFrame.fillna.*", category |-> "Warning", module |-> ""]
SeriesFilter == [action |-> "ignore", message |-> ".*Series.fillna.*", category |-> "Warning", module |-> ""]
\* a filter some other component registered
OtherFilter == [action |-> "default", message |-> "", category |-> "DeprecationWarning", module |-> ""]

InitFilterItems == {SeriesFilter, OtherFilter}

ProactorPolicy == "WindowsProactorEventLoopPolicy"
InitPolicies == {"DefaultEventLoopPolicy", "CustomEventLoopPolicy"}

NumpyDefaultErr == [divide |-> "warn", over |-> "warn", under |-> "ignore", invalid |-> "warn"]
InitErrStates == {NumpyDefaultErr}
InitThresholds == {<<2000, 10, 10>>}

\* the places of each try body where a library call can raise; 0 = none raises
\*   fix_pandas_warnings: 1 before a filter is registered, 2 at the second
\*     filterwarnings, 3 at the third
\*   fix_binance_client_timeouts: 1 before the first variable is looked at,
\*     2 after the first variable is dealt with
\*   the other routines: 1 before the one call that writes
FaultPoints(r) ==
    CASE r = "fix_pandas_warnings" -> 0..3
      [] r = "fix_asyncio_warnings" -> 0..1
      [] r = "fix_binance_client_timeouts" -> 0..2
      [] r = "fix_signal_calculations" -> 0..1
      [] r = "optimize_memory_usage" -> 0..1

FaultVectors == [fix_pandas_warnings : FaultPoints("fix_pandas_warnings"),
                 fix_asyncio_warnings : FaultPoints("fix_asyncio_warnings"),
                 fix_binance_client_timeouts : FaultPoints("fix_binance_client_timeouts"),
                 fix_signal_calculations : FaultPoints("fix_signal_calculations"),
                 optimize_memory_usage : FaultPoints("optimize_memory_usage")]

NoFaults == [r \in Routines |-> 0]

(***************************************************************************)
(* The process-global configuration as one value                           *)
(***************************************************************************)
G == [environ |-> environ, filters |-> filters, policy |-> policy,
      errstate |-> errstate, threshold |-> threshold]

Debug(m) == [level |-> "DEBUG", msg |-> m]
Info(m) == [level |-> "INFO", msg |-> m]
Warning(m) == [level |-> "WARNING", msg |-> m]

\* a try body that ran to its end / that raised
Body(g, log) == [g |-> g, log |-> log, exc |-> "none"]
Raise(g, kind) == [g |-> g, log |-> <<>>, exc |-> kind]

(***************************************************************************)
(* except clauses                                                          *)
(***************************************************************************)
\* except ImportError: logger.debug(...)
except_ImportError(b, rec) ==
    IF b.exc = "ImportError" THEN [b EXCEPT !.log = Append(@, rec), !.exc = "none"] ELSE b

\* a handler that logs and lets the exception go on
except_Exception_reraise(b, rec) ==
    IF b.exc # "none" THEN [b EXCEPT !.log = Append(@, rec)] ELSE b

\* except Exception as e: logger.debug/warning(...)   (ImportError is an Exception)
except_Exception(b, rec) ==
    IF b.exc # "none" THEN [b EXCEPT !.log = Append(@, rec), !.exc = "none"] ELSE b

(***************************************************************************)
(* Library calls                                                           *)
(***************************************************************************)
\* os.getenv(name): the value, or None when the variable is not set
getenv(e, name) == IF name \in DOMAIN e THEN e[name] ELSE None

\* os.environ[name] = value
setenv(e, name, value) == [n \in DOMAIN e \cup {name} |-> IF n = name THEN value ELSE e[n]]

\* Python truth of "not v" for v a string or None
Not(v) == v = None \/ v = ""

\* list.remove(item): drops the first occurrence, if there is one
RemoveFirst(s, item) ==
    LET at == {i \in 1..Len(s) : s[i] = item}
    IN  IF at = {} THEN s
        ELSE LET k == CHOOSE i \in at : \A j \in at : i <= j
             IN  SubSeq(s, 1, k - 1) \o SubSeq(s, k + 1, Len(s))

\* a filterwarnings that inserts without looking for the item in the list
filterwarnings_nodedup(fs, item) == <<item>> \o fs

\* warnings.filterwarnings(...): an item already in the list is removed, then
\* the item is inserted at the front
filterwarnings(fs, item) == <<item>> \o RemoveFirst(fs, item)

(***************************************************************************)
(* The five adjustment routines                                            *)
(***************************************************************************)
fix_pandas_warnings_try(g, f) ==
    IF "pandas" \notin modules THEN Raise(g, "ImportError")
    ELSE IF f = 1 THEN Raise(g, "Exception")
    ELSE LET g1 == [g EXCEPT !.filters = filterwarnings(@, FutureFilter)]
             g2 == [g1 EXCEPT !.filters = filterwarnings(@, DataFrameFilter)]
             g3 == [g2 EXCEPT !.filters = filterwarnings(@, SeriesFilter)]
         IN  IF f = 2 THEN Raise(g1, "Exception")
             ELSE IF f = 3 THEN Raise(g2, "Exception")
             ELSE Body(g3, <<Debug("Pandas warnings suppressed")>>)

\* fix_pandas_warnings without the except ImportError clause and with a handler
\* that lets an absent pandas reach the caller
fix_pandas_warnings_importerror(g, f) ==
    LET b == fix_pandas_warnings_try(g, f)
    IN  IF b.exc = "ImportError" THEN b
        ELSE except_Exception(b, Debug("Failed to fix pandas warnings"))

fix_pandas_warnings(g, f) ==
    except_Exception(
        except_ImportError(fix_pandas_warnings_try(g, f),
                           Debug("Pandas not available for warning fixes")),
        Debug("Failed to fix pandas warnings"))

\* the platform test inverted
fix_asyncio_warnings_try_inverted(g, f) ==
    IF f = 1 THEN Raise(g, "Exception")
    ELSE IF platform # "Windows"
         THEN IF hasProactor
              THEN Body([g EXCEPT !.policy = ProactorPolicy],
                        <<Debug("Windows asyncio event loop policy set")>>)
              ELSE Body(g, <<>>)
         ELSE Body(g, <<>>)

fix_asyncio_warnings_try(g, f) ==
    IF f = 1 THEN Raise(g, "Exception")
    ELSE IF platform = "Windows"
         THEN IF hasProactor
              THEN Body([g EXCEPT !.policy = ProactorPolicy],
                        <<Debug("Windows asyncio event loop policy set")>>)
              ELSE Body(g, <<>>)
         ELSE Body(g, <<>>)

fix_asyncio_warnings(g, f) ==
    except_Exception(fix_asyncio_warnings_try(g, f), Debug("Failed to fix asyncio warnings"))

fix_binance_client_timeouts_try(g, f) ==
    IF f = 1 THEN Raise(g, "Exception")
    ELSE LET e1 == IF Not(getenv(g.environ, "BINANCE_API_TIMEOUT"))
                   THEN setenv(g.environ, "BINANCE_API_TIMEOUT", "30")
                   ELSE g.environ
             e2 == IF Not(getenv(e1, "BINANCE_MAX_RETRIES"))
                   THEN setenv(e1, "BINANCE_MAX_RETRIES", "3")
                   ELSE e1
         IN  IF f = 2 THEN Raise([g EXCEPT !.environ = e1], "Exception")
             ELSE Body([g EXCEPT !.environ = e2],
                       <<Debug("Binance client timeout settings optimized")>>)

fix_binance_client_timeouts(g, f) ==
    except_Exception(fix_binance_client_timeouts_try(g, f),
                     Debug("Failed to optimize Binance timeouts"))

fix_signal_calculations_try(g, f) ==
    IF "numpy" \notin modules THEN Raise(g, "ImportError")
    ELSE IF f = 1 THEN Raise(g, "Exception")
    ELSE Body([g EXCEPT !.errstate = [@ EXCEPT !.divide = "ignore", !.invalid = "ignore"]],
              <<Debug("Signal calculation error handling improved")>>)

\* fix_signal_calculations whose last handler logs and raises again
fix_signal_calculations_reraise(g, f) ==
    except_Exception_reraise(
        except_ImportError(fix_signal_calculations_try(g, f),
                           Debug("NumPy not available for signal fixes")),
        Debug("Failed to fix signal calculations"))

fix_signal_calculations(g, f) ==
    except_Exception(
        except_ImportError(fix_signal_calculations_try(g, f),
                           Debug("NumPy not available for signal fixes")),
        Debug("Failed to fix signal calculations"))

\* a tuning that takes the first threshold from the timeout variable when it is set
optimize_memory_usage_try_envdep(g, f) ==
    IF f = 1 THEN Raise(g, "Exception")
    ELSE LET t0 == IF getenv(g.environ, "BINANCE_API_TIMEOUT") = "30" THEN 30 ELSE 700
         IN  Body([g EXCEPT !.threshold = <<t0, 10, 10>>],
                  <<Debug("Memory usage optimizations applied")>>)

optimize_memory_usage_try(g, f) ==
    IF f = 1 THEN Raise(g, "Exception")
    ELSE Body([g EXCEPT !.threshold = <<700, 10, 10>>],
              <<Debug("Memory usage optimizations applied")>>)

optimize_memory_usage(g, f) ==
    except_Exception(optimize_memory_usage_try(g, f), Debug("Failed to optimize memory usage"))

\* a call of the routine named r
Call(r, g, f) ==
    CASE r = "fix_pandas_warnings" -> fix_pandas_warnings(g, f)
      [] r = "fix_asyncio_warnings" -> fix_asyncio_warnings(g, f)
      [] r = "fix_binance_client_timeouts" -> fix_binance_client_timeouts(g, f)
      [] r = "fix_signal_calculations" -> fix_signal_calculations(g, f)
      [] r = "optimize_memory_usage" -> optimize_memory_usage(g, f)

(***************************************************************************)
(* apply_fixes                                                             *)
(***************************************************************************)
\* one statement "routine()" of a try body: not reached once a statement raised
invoke(acc, r, fv) ==
    IF acc.exc # "none" THEN acc
    ELSE LET b == Call(r, acc.g, fv[r])
         IN  [acc EXCEPT !.g = b.g, !.log = @ \o b.log, !.exc = b.exc,
                         !.trace = Append(@, r)]

Start(g) == [g |-> g, log |-> <<>>, exc |-> "none", trace |-> <<>>]

\* the order apply_fixes and get_fix_status call the routines in
CallOrder == <<"fix_pandas_warnings", "fix_asyncio_warnings", "fix_binance_client_timeouts",
               "fix_signal_calculations", "optimize_memory_usage">>

apply_fixes_try(g, fv) ==
    LET a1 == invoke(Start(g), "fix_pandas_warnings", fv)
        a2 == invoke(a1, "fix_asyncio_warnings", fv)
        a3 == invoke(a2, "fix_binance_client_timeouts", fv)
        a4 == invoke(a3, "fix_signal_calculations", fv)
        a5 == invoke(a4, "optimize_memory_usage", fv)
    IN  IF a5.exc = "none"
        THEN [a5 EXCEPT !.log = Append(@, Info("All simple live fixes applied successfully"))]
        ELSE a5

apply_fixes(g, fv) ==
    except_Exception(apply_fixes_try(g, fv), Warning("Error applying some live fixes"))

(***************************************************************************)
(* get_fix_status                                                          *)
(***************************************************************************)
\* fixes[key] = True
setitem(d, key) == [k \in DOMAIN d \cup {key} |-> IF k = key THEN TRUE ELSE d[k]]

\* try: routine(); fixes[key] = True
\* except Exception: pass
status_step(acc, r, key, fv) ==
    LET b == Call(r, acc.g, fv[r])
    IN  [acc EXCEPT !.g = b.g, !.log = @ \o b.log, !.exc = "none",
                    !.trace = Append(@, r),
                    !.fixes = IF b.exc = "none" THEN setitem(@, key) ELSE @]

\* get_fix_status with one key misspelt where it is set
get_fix_status_typo(g, fv) ==
    LET s0 == [g |-> g, log |-> <<>>, exc |-> "none", trace |-> <<>>,
               fixes |-> [k \in FixNames |-> FALSE]]
        s1 == status_step(s0, "fix_pandas_warnings", "pandas_warnings", fv)
        s2 == status_step(s1, "fix_asyncio_warnings", "asyncio_warnings", fv)
        s3 == status_step(s2, "fix_binance_client_timeouts", "binance_timeouts", fv)
        s4 == status_step(s3, "fix_signal_calculations", "signal_calculation", fv)
    IN  status_step(s4, "optimize_memory_usage", "memory_optimization", fv)

get_fix_status(g, fv) ==
    LET s0 == [g |-> g, log |-> <<>>, exc |-> "none", trace |-> <<>>,
               fixes |-> [k \in FixNames |-> FALSE]]
        s1 == status_step(s0, "fix_pandas_warnings", "pandas_warnings", fv)
        s2 == status_step(s1, "fix_asyncio_warnings", "asyncio_warnings", fv)
        s3 == status_step(s2, "fix_binance_client_timeouts", "binance_timeouts", fv)
        s4 == status_step(s3, "fix_signal_calculations", "signal_calculations", fv)
    IN  status_step(s4, "optimize_memory_usage", "memory_optimization", fv)

(***************************************************************************)
(* The state machine                                                       *)
(***************************************************************************)
\* sequences over S without repetition, of length at most n
RECURSIVE DistinctSeqs(_, _)
DistinctSeqs(S, n) ==
    IF n = 0 THEN {<<>>}
    ELSE LET shorter == DistinctSeqs(S, n - 1)
         IN  shorter \cup
             UNION {{Append(q, x) : x \in S \ {q[i] : i \in DOMAIN q}} : q \in shorter}

InitEnvirons ==
    UNION {[D -> InitEnvValues] : D \in SUBSET EnvNames}

NoDict == [k \in {} |-> FALSE]

\* the configuration of an interpreter that has just started
Fresh ==
    /\ environ = NoDict
    /\ filters = <<>>
    /\ policy = "DefaultEventLoopPolicy"

\* A sound installation is started from any configuration, one with faults from
\* the configuration of a fresh interpreter.  A library that is not installed
\* has no fault point: importing it raises ImportError before any call.
Init ==
    /\ platform \in {"Windows", "Linux"}
    /\ hasProactor \in BOOLEAN
    /\ hasProactor => platform = "Windows"
    /\ modules \in {{}, {"numpy"}, {"numpy", "pandas"}}
    /\ faults \in FaultVectors
    /\ "pandas" \notin modules => faults["fix_pandas_warnings"] = 0
    /\ "numpy" \notin modules => faults["fix_signal_calculations"] = 0
    /\ environ \in InitEnvirons
    /\ filters \in DistinctSeqs(InitFilterItems, MaxInitFilters)
    /\ policy \in InitPolicies
    /\ faults = NoFaults \/ Fresh
    /\ errstate \in InitErrStates
    /\ threshold \in InitThresholds
    /\ last = [op |-> "none", pre |-> G, log |-> <<>>,
               exc |-> "none", trace |-> <<>>, ret |-> NoDict]

Commit(g) ==
    /\ environ' = g.environ
    /\ filters' = g.filters
    /\ policy' = g.policy
    /\ errstate' = g.errstate
    /\ threshold' = g.threshold
    /\ UNCHANGED <<platform, modules, hasProactor, faults>>

ApplyFixes ==
    LET r == apply_fixes(G, faults)
    IN  /\ Commit(r.g)
        /\ last' = [op |-> "apply_fixes", pre |-> G, log |-> r.log,
                    exc |-> r.exc, trace |-> r.trace, ret |-> NoDict]

GetFixStatus ==
    LET r == get_fix_status(G, faults)
    IN  /\ Commit(r.g)
        /\ last' = [op |-> "get_fix_status", pre |-> G, log |-> r.log,
                    exc |-> r.exc, trace |-> r.trace, ret |-> r.fixes]

\* a direct call of one routine
Routine(name) ==
    LET r == Call(name, G, faults[name])
    IN  /\ Commit(r.g)
        /\ last' = [op |-> name, pre |-> G, log |-> r.log, exc |-> r.exc,
                    trace |-> <<name>>, ret |-> NoDict]

FixPandasWarnings == Routine("fix_pandas_warnings")
FixAsyncioWarnings == Routine("fix_asyncio_warnings")
FixBinanceClientTimeouts == Routine("fix_binance_client_timeouts")
FixSignalCalculations == Routine("fix_signal_calculations")
OptimizeMemoryUsage == Routine("optimize_memory_usage")

Next ==
    \/ ApplyFixes
    \/ GetFixStatus
    \/ FixPandasWarnings
    \/ FixAsyncioWarnings
    \/ FixBinanceClientTimeouts
    \/ FixSignalCalculations
    \/ OptimizeMemoryUsage

Spec == Init /\ [][Next]_vars

(***************************************************************************)
(* Vocabulary of the properties                                            *)
(***************************************************************************)
\* the key of the status mapping that reports routine r
KeyOf(r) ==
    CASE r = "fix_pandas_warnings" -> "pandas_warnings"
      [] r = "fix_asyncio_warnings" -> "asyncio_warnings"
      [] r = "fix_binance_client_timeouts" -> "binance_timeouts"
      [] r = "fix_signal_calculations" -> "signal_calculations"
      [] r = "optimize_memory_usage" -> "memory_optimization"

\* what routine r logs when its body raises / when its library is absent
FailedMsg(r) ==
    CASE r = "fix_pandas_warnings" -> "Failed to fix pandas warnings"
      [] r = "fix_asyncio_warnings" -> "Failed to fix asyncio warnings"
      [] r = "fix_binance_client_timeouts" -> "Failed to optimize Binance timeouts"
      [] r = "fix_signal_calculations" -> "Failed to fix signal calculations"
      [] r = "optimize_memory_usage" -> "Failed to optimize memory usage"

AbsentMsg(r) ==
    CASE r = "fix_pandas_warnings" -> "Pandas not available for warning fixes"
      [] r = "fix_signal_calculations" -> "NumPy not available for signal fixes"
      [] OTHER -> "-"

Logged(log, rec) == \E i \in DOMAIN log : log[i] = rec

\* during the last call routine r met a runtime error / an absent dependency
MetError(r) == Logged(last.log, Debug(FailedMsg(r)))
MetAbsent(r) == Logged(last.log, Debug(AbsentMsg(r)))

InfoLogged == \E i \in DOMAIN last.log : last.log[i].level = "INFO"
WarningLogged == \E i \in DOMAIN last.log : last.log[i].level = "WARNING"

DefaultOf(n) == IF n = "BINANCE_API_TIMEOUT" THEN "30" ELSE "3"

\* the configurations the routines of S can leave when each is called once,
\* in any order, starting from g
RECURSIVE AfterAll(_, _)
AfterAll(S, g) ==
    IF S = {} THEN {g}
    ELSE UNION {AfterAll(S \ {r}, Call(r, g, faults[r]).g) : r \in S}

\* the components of the configuration routine r writes
Owns(r) ==
    CASE r = "fix_pandas_warnings" -> {"filters"}
      [] r = "fix_asyncio_warnings" -> {"policy"}
      [] r = "fix_binance_client_timeouts" -> {"environ"}
      [] r = "fix_signal_calculations" -> {"errstate"}
      [] r = "optimize_memory_usage" -> {"threshold"}

(***************************************************************************)
(* Properties                                                              *)
(***************************************************************************)
\* C1: apply_fixes never raises: whatever the platform, the installed
\* libraries and the routines that fail internally, the call ends with no
\* exception reaching the caller.
ApplyFixesNeverRaises ==
    last.op = "apply_fixes" => last.exc = "none"

\* apply_fixes has run in an installation where every routine fails internally
ApplyFixesAllFaulty ==
    /\ last.op = "apply_fixes"
    /\ \A r \in Routines : faults[r] # 0

\* C2: get_fix_status never raises and returns a mapping whose keys are
\* exactly the five fix names, each with a boolean value, also after earlier
\* calls.
StatusHasFiveBooleanKeys ==
    last.op = "get_fix_status" =>
        /\ last.exc = "none"
        /\ DOMAIN last.ret = FixNames
        /\ \A k \in DOMAIN last.ret : last.ret[k] \in BOOLEAN

\* get_fix_status has run after an earlier call, in a faulty installation
StatusAfterEarlierCalls ==
    /\ last.op = "get_fix_status"
    /\ last.pre.threshold = <<700, 10, 10>>
    /\ \E r \in Routines : faults[r] # 0

\* C3: fix_binance_client_timeouts keeps a variable that is set, whatever its
\* value, and gives one that is not set its default ("30", "3").
TimeoutsNeverOverwrite ==
    (last.op = "fix_binance_client_timeouts" /\ faults["fix_binance_client_timeouts"] = 0) =>
        \A n \in EnvNames :
            IF n \in DOMAIN last.pre.environ
            THEN getenv(environ, n) = last.pre.environ[n]
            ELSE getenv(environ, n) = DefaultOf(n)

\* C4: with pandas absent the warning-suppression routine leaves the filters
\* as they were and does not raise, and get_fix_status reports
\* pandas_warnings = true; with no optional library, no variable set and a
\* platform other than Windows, get_fix_status reports all five flags true.
PandasAbsentNoOpFlagTrue ==
    /\ (last.op = "fix_pandas_warnings" /\ "pandas" \notin modules) =>
            /\ filters = last.pre.filters
            /\ last.exc = "none"
    /\ (last.op = "get_fix_status" /\ "pandas" \notin modules) =>
            /\ filters = last.pre.filters
            /\ last.exc = "none"
            /\ last.ret["pandas_warnings"] = TRUE
    /\ (/\ last.op = "get_fix_status"
        /\ modules = {}
        /\ platform # "Windows"
        /\ last.pre.environ = NoDict) =>
            \A k \in FixNames : last.ret[k] = TRUE

\* get_fix_status has run with no optional library, no variable set, not on Windows
StatusInBareEnvironment ==
    /\ last.op = "get_fix_status"
    /\ modules = {}
    /\ platform = "Linux"
    /\ last.pre.environ = NoDict
    /\ MetAbsent("fix_pandas_warnings")

\* C5: in the mapping get_fix_status returns, a routine's flag is false
\* whenever the routine met an absent optional dependency or a runtime error
\* during the call, and true only when it was executed successfully.
FlagFalseOnFailure ==
    last.op = "get_fix_status" =>
        \A r \in Routines :
            (MetAbsent(r) \/ MetError(r)) => last.ret[KeyOf(r)] = FALSE

\* C6: apply_fixes logs the success message exactly when all five routines
\* succeeded, logs a warning when at least one failed, and never both.
InfoIffAllSucceeded ==
    last.op = "apply_fixes" =>
        LET someFailed == \E r \in Routines : MetError(r)
        IN  /\ InfoLogged <=> ~someFailed
            /\ someFailed => WarningLogged
            /\ ~(InfoLogged /\ WarningLogged)

\* C7: every apply_fixes call invokes the five routines once each, in the
\* order warning suppression, event-loop policy, timeout defaults, numeric
\* error mode, collector tuning, whichever of them fail.
ApplyFixesCallsAllInOrder ==
    last.op = "apply_fixes" => last.trace = CallOrder

\* apply_fixes has run where the first routine and a later one fail
ApplyFixesWithFailingRoutines ==
    /\ last.op = "apply_fixes"
    /\ MetError("fix_pandas_warnings")
    /\ MetError("fix_signal_calculations")

\* C8: every routine is idempotent: from the configuration the process is
\* in, calling a routine twice leaves the configuration calling it once
\* leaves; and get_fix_status after apply_fixes leaves the configuration as
\* apply_fixes left it.
RoutinesIdempotent ==
    /\ \A r \in Routines :
           LET once == Call(r, G, faults[r]).g
               twice == Call(r, once, faults[r]).g
           IN  twice = once
    /\ last.op = "apply_fixes" => get_fix_status(G, faults).g = G

\* fix_pandas_warnings has moved its filters to the front of a list that held
\* one of them, and apply_fixes has changed the configuration
PandasFiltersReinserted ==
    /\ last.op = "fix_pandas_warnings"
    /\ Len(last.pre.filters) > 0
    /\ \E i \in DOMAIN last.pre.filters : last.pre.filters[i] = SeriesFilter
    /\ filters # last.pre.filters
    /\ Len(filters) = 3

\* C9: fix_asyncio_warnings changes the event-loop policy only on Windows
\* with the proactor policy available, and then the proactor policy is the
\* process-wide policy (unless the body raised before it set it); otherwise
\* the policy is unchanged.  It never raises.
PolicyOnlyOnWindowsProactor ==
    last.op = "fix_asyncio_warnings" =>
        /\ last.exc = "none"
        /\ policy # last.pre.policy => (platform = "Windows" /\ hasProactor)
        /\ (platform = "Windows" /\ hasProactor /\ ~MetError("fix_asyncio_warnings"))
               => policy = ProactorPolicy
        /\ ~(platform = "Windows" /\ hasProactor) => policy = last.pre.policy

\* fix_asyncio_warnings has replaced the policy on Windows
PolicyReplacedOnWindows ==
    /\ last.op = "fix_asyncio_warnings"
    /\ platform = "Windows"
    /\ hasProactor
    /\ last.pre.policy # ProactorPolicy
    /\ policy = ProactorPolicy

\* C10: the routines are order-insensitive: from the configuration
\* apply_fixes started in, calling the five routines in any order gives the
\* configuration apply_fixes has given; and a routine called alone changes
\* only the component it owns.
OrderInsensitive ==
    /\ last.op = "apply_fixes" =>
           AfterAll(Routines, last.pre) = {G}
    /\ \A r \in Routines :
           last.op = r =>
               \A c \in DOMAIN G \ Owns(r) : G[c] = last.pre[c]

\* apply_fixes has changed the variables, the error state and the thresholds
ApplyFixesChangedSeveral ==
    /\ last.op = "apply_fixes"
    /\ environ # last.pre.environ
    /\ errstate # last.pre.errstate
    /\ threshold # last.pre.threshold

====
